---- MODULE Spec2Model ----
(***************************************************************************)
(* Model of ripple::DisputedTx<Traits>                                     *)
(* (src/ripple/app/ledger/impl/DisputedTx.h): the tally of peer votes on   *)
(* one disputed transaction and the avalanche decision on our own vote.    *)
(*                                                                         *)
(* One action per public operation: setVote, unVote, setOurVote,           *)
(* updateVote, getJson.  The variable `last` records the most recent call  *)
(* (its arguments, its return value, the locals of updateVote, the state   *)
(* before the call and the run of calls it belongs to) so that pre/post    *)
(* contracts of the calls are state predicates.                            *)
(***************************************************************************)
EXTENDS Integers, FiniteSets, Sequences, TLC

(* ------------------------------ bounds --------------------------------- *)

\* number of distinct peers (NodeID_t values) that may vote
MaxPeers == 4

Peers == 1 .. MaxPeers

\* cap of the count of changes of mOurVote kept for a run of updateVote calls
MaxFlips == 3

\* Tx_t values a DisputedTx may be constructed with (the payload is opaque:
\* no operation reads it after construction)
Txs == {"txA"}

\* percentTime arguments passed to updateVote: both sides of every bracket
\* boundary, and the boundaries themselves
PercentTimes == {30, 49, 50, 84, 85, 199, 200}

\* support percentages the avalanche thresholds are drawn from
PctValues == {50, 65, 70, 95}

(* --------------------- avalanche configuration ------------------------- *)

\* percentage of the round after which the mid / late / stuck threshold holds
AV_MID_CONSENSUS_TIME == 50

AV_LATE_CONSENSUS_TIME == 85

AV_STUCK_CONSENSUS_TIME == 200

\* the configurations of the four support percentages: non-decreasing over
\* the brackets, starting at 50
Configs ==
    { c \in [initPct : {50}, midPct : PctValues,
             latePct : PctValues, stuckPct : PctValues] :
        /\ c.initPct <= c.midPct
        /\ c.midPct <= c.latePct
        /\ c.latePct <= c.stuckPct }

VARIABLES
    mTransactionID,   \* TxID_t mTransactionID
    transaction,      \* Tx_t transaction
    mYays,            \* int mYays
    mNays,            \* int mNays
    mOurVote,         \* bool mOurVote
    mVotes,           \* hash_map<NodeID_t, bool> mVotes
    cfg,              \* the AV_*_CONSENSUS_PCT values of the build
    last              \* the most recent call and the state it started from

vars == <<mTransactionID, transaction, mYays, mNays, mOurVote, mVotes, cfg, last>>

AV_INIT_CONSENSUS_PCT == cfg.initPct

AV_MID_CONSENSUS_PCT == cfg.midPct

AV_LATE_CONSENSUS_PCT == cfg.latePct

AV_STUCK_CONSENSUS_PCT == cfg.stuckPct

(* ------------------------------ helpers -------------------------------- *)

\* tx.getID(): the identifier of a transaction
getID(tx) == <<"id", tx>>

\* the fields of the object a call starts from
Pre ==
    [mTransactionID |-> mTransactionID, transaction |-> transaction,
     mYays |-> mYays, mNays |-> mNays, mOurVote |-> mOurVote,
     mVotes |-> mVotes]

\* the value of a call that returns no Json::Value
NoJson == << >>

\* no run of updateVote calls is under way
RunIdle ==
    [active |-> FALSE, proposing |-> FALSE, time |-> 0, flips |-> 0,
     wentNo |-> FALSE, backToYes |-> FALSE, same |-> FALSE]

\* the run of successive updateVote calls with the same proposing and
\* non-decreasing percentTime that a call extends, starts or (any other
\* call) ends: the changes of mOurVote it made so far, whether one was
\* from yes to no, whether a later one went back to yes, and whether the
\* call repeats the arguments of the call before it
NextRun(op, percentTime, proposing, ret) ==
    IF op = "updateVote"
        THEN LET cont == /\ last.run.active
                         /\ last.run.proposing = proposing
                         /\ percentTime >= last.run.time
                 base == IF cont THEN last.run ELSE RunIdle
             IN  [active |-> TRUE, proposing |-> proposing,
                  time |-> percentTime,
                  flips |-> IF ret /\ base.flips < MaxFlips
                               THEN base.flips + 1 ELSE base.flips,
                  wentNo |-> base.wentNo \/ (ret /\ mOurVote),
                  backToYes |-> \/ base.backToYes
                                \/ (ret /\ ~mOurVote /\ base.wentNo),
                  same |-> cont /\ percentTime = last.run.time]
    ELSE RunIdle

\* no sequence of setVote calls for one new peer is under way
TripIdle ==
    [active |-> FALSE, done |-> FALSE, flipped |-> FALSE, peer |-> 0,
     mVotes |-> << >>, mYays |-> 0, mNays |-> 0]

\* the sequence setVote(p, _) ... setVote(p, _), unVote(p) for a peer p that
\* was absent at its first call, with the tally that first call started from
NextTrip(op, peer, vote) ==
    IF op = "setVote"
        THEN IF peer \notin DOMAIN mVotes
                 THEN [active |-> TRUE, done |-> FALSE, flipped |-> FALSE,
                       peer |-> peer, mVotes |-> mVotes,
                       mYays |-> mYays, mNays |-> mNays]
             ELSE IF last.trip.active /\ last.trip.peer = peer
                 THEN [last.trip EXCEPT
                          !.flipped = last.trip.flipped \/ mVotes[peer] # vote]
             ELSE TripIdle
    ELSE IF op = "unVote"
        THEN IF last.trip.active /\ last.trip.peer = peer
                 THEN [last.trip EXCEPT !.active = FALSE, !.done = TRUE]
                 ELSE TripIdle
    ELSE TripIdle

\* the record of a call; the fields a call does not have keep a fixed value
Call(op, peer, vote, percentTime, proposing, ret, early, weight, newPosition) ==
    [op |-> op, peer |-> peer, vote |-> vote, percentTime |-> percentTime,
     proposing |-> proposing, ret |-> ret, early |-> early,
     weight |-> weight, newPosition |-> newPosition, pre |-> Pre,
     json |-> NoJson,
     run |-> NextRun(op, percentTime, proposing, ret),
     trip |-> NextTrip(op, peer, vote)]

\* number of peers whose stored vote is v
CountVotes(votes, v) == Cardinality({p \in DOMAIN votes : votes[p] = v})

(* --------------------------- construction ------------------------------ *)

Init ==
    /\ transaction \in Txs
    /\ mTransactionID = getID(transaction)
    /\ mYays = 0
    /\ mNays = 0
    /\ mOurVote \in BOOLEAN
    /\ mVotes = << >>
    /\ cfg \in Configs
    /\ last = [op |-> "ctor", peer |-> 0, vote |-> mOurVote, percentTime |-> 0,
               proposing |-> FALSE, ret |-> FALSE, early |-> FALSE,
               weight |-> 0, newPosition |-> FALSE,
               pre |-> [mTransactionID |-> getID(transaction),
                        transaction |-> transaction,
                        mYays |-> 0, mNays |-> 0, mOurVote |-> mOurVote,
                        mVotes |-> << >>],
               json |-> NoJson, run |-> RunIdle, trip |-> TripIdle]

(* ------------------------------ setOurVote ----------------------------- *)

\* setOurVote letting the tally overrule the argument once peers have voted
setOurVote_ConsultsTally(o) ==
    /\ mOurVote' = IF mYays + mNays = 0 THEN o ELSE (o /\ mYays >= mNays)
    /\ last' = Call("setOurVote", 0, o, 0, FALSE, FALSE, FALSE, 0, FALSE)
    /\ UNCHANGED <<mTransactionID, transaction, mYays, mNays, mVotes, cfg>>

setOurVote(o) ==
    /\ mOurVote' = o
    /\ last' = Call("setOurVote", 0, o, 0, FALSE, FALSE, FALSE, 0, FALSE)
    /\ UNCHANGED <<mTransactionID, transaction, mYays, mNays, mVotes, cfg>>

(* ------------------------------- setVote ------------------------------- *)

\* mVotes.insert(make_pair(peer, votesYes)): inserts only when peer is absent
Insert(votes, peer, votesYes) ==
    IF peer \in DOMAIN votes
        THEN votes
        ELSE [p \in DOMAIN votes \cup {peer} |->
                 IF p = peer THEN votesYes ELSE votes[p]]

\* setVote counting a repeated, unchanged vote as a new one
setVote_CountsRevote(peer, votesYes) ==
    /\ IF peer \notin DOMAIN mVotes
          THEN /\ mVotes' = Insert(mVotes, peer, votesYes)
               /\ IF votesYes
                     THEN mYays' = mYays + 1 /\ mNays' = mNays
                     ELSE mNays' = mNays + 1 /\ mYays' = mYays
          ELSE IF votesYes /\ ~mVotes[peer]
          THEN /\ mNays' = mNays - 1
               /\ mYays' = mYays + 1
               /\ mVotes' = [mVotes EXCEPT ![peer] = TRUE]
          ELSE IF ~votesYes /\ mVotes[peer]
          THEN /\ mNays' = mNays + 1
               /\ mYays' = mYays - 1
               /\ mVotes' = [mVotes EXCEPT ![peer] = FALSE]
          ELSE /\ mVotes' = mVotes
               /\ IF votesYes
                     THEN mYays' = mYays + 1 /\ mNays' = mNays
                     ELSE mNays' = mNays + 1 /\ mYays' = mYays
    /\ last' = Call("setVote", peer, votesYes, 0, FALSE, FALSE, FALSE, 0, FALSE)
    /\ UNCHANGED <<mTransactionID, transaction, mOurVote, cfg>>

\* setVote whose change to no forgets to take the vote from mYays
setVote_FlipKeepsOld(peer, votesYes) ==
    /\ IF peer \notin DOMAIN mVotes
          THEN /\ mVotes' = Insert(mVotes, peer, votesYes)
               /\ IF votesYes
                     THEN mYays' = mYays + 1 /\ mNays' = mNays
                     ELSE mNays' = mNays + 1 /\ mYays' = mYays
          ELSE IF votesYes /\ ~mVotes[peer]
          THEN /\ mNays' = mNays - 1
               /\ mYays' = mYays + 1
               /\ mVotes' = [mVotes EXCEPT ![peer] = TRUE]
          ELSE IF ~votesYes /\ mVotes[peer]
          THEN /\ mNays' = mNays + 1
               /\ mYays' = mYays
               /\ mVotes' = [mVotes EXCEPT ![peer] = FALSE]
          ELSE UNCHANGED <<mYays, mNays, mVotes>>
    /\ last' = Call("setVote", peer, votesYes, 0, FALSE, FALSE, FALSE, 0, FALSE)
    /\ UNCHANGED <<mTransactionID, transaction, mOurVote, cfg>>

setVote(peer, votesYes) ==
    /\ IF peer \notin DOMAIN mVotes
          THEN \* new vote
               /\ mVotes' = Insert(mVotes, peer, votesYes)
               /\ IF votesYes
                     THEN mYays' = mYays + 1 /\ mNays' = mNays
                     ELSE mNays' = mNays + 1 /\ mYays' = mYays
          ELSE IF votesYes /\ ~mVotes[peer]
          THEN \* changes vote to yes
               /\ mNays' = mNays - 1
               /\ mYays' = mYays + 1
               /\ mVotes' = [mVotes EXCEPT ![peer] = TRUE]
          ELSE IF ~votesYes /\ mVotes[peer]
          THEN \* changes vote to no
               /\ mNays' = mNays + 1
               /\ mYays' = mYays - 1
               /\ mVotes' = [mVotes EXCEPT ![peer] = FALSE]
          ELSE UNCHANGED <<mYays, mNays, mVotes>>
    /\ last' = Call("setVote", peer, votesYes, 0, FALSE, FALSE, FALSE, 0, FALSE)
    /\ UNCHANGED <<mTransactionID, transaction, mOurVote, cfg>>

(* -------------------------------- unVote ------------------------------- *)

\* mVotes.erase(it)
Erase(votes, peer) == [p \in DOMAIN votes \ {peer} |-> votes[p]]

\* unVote decrementing mYays whatever the stored vote is
unVote_AlwaysYays(peer) ==
    /\ IF peer \in DOMAIN mVotes
          THEN /\ mYays' = mYays - 1
               /\ mNays' = mNays
               /\ mVotes' = Erase(mVotes, peer)
          ELSE UNCHANGED <<mYays, mNays, mVotes>>
    /\ last' = Call("unVote", peer, FALSE, 0, FALSE, FALSE, FALSE, 0, FALSE)
    /\ UNCHANGED <<mTransactionID, transaction, mOurVote, cfg>>

\* unVote without the test of find() against end(): an absent peer is
\* counted out as a no vote
unVote_NoFindCheck(peer) ==
    /\ IF peer \in DOMAIN mVotes
          THEN /\ IF mVotes[peer]
                     THEN mYays' = mYays - 1 /\ mNays' = mNays
                     ELSE mNays' = mNays - 1 /\ mYays' = mYays
               /\ mVotes' = Erase(mVotes, peer)
          ELSE /\ mNays' = mNays - 1
               /\ UNCHANGED <<mYays, mVotes>>
    /\ last' = Call("unVote", peer, FALSE, 0, FALSE, FALSE, FALSE, 0, FALSE)
    /\ UNCHANGED <<mTransactionID, transaction, mOurVote, cfg>>

unVote(peer) ==
    /\ IF peer \in DOMAIN mVotes
          THEN /\ IF mVotes[peer]
                     THEN mYays' = mYays - 1 /\ mNays' = mNays
                     ELSE mNays' = mNays - 1 /\ mYays' = mYays
               /\ mVotes' = Erase(mVotes, peer)
          ELSE UNCHANGED <<mYays, mNays, mVotes>>
    /\ last' = Call("unVote", peer, FALSE, 0, FALSE, FALSE, FALSE, 0, FALSE)
    /\ UNCHANGED <<mTransactionID, transaction, mOurVote, cfg>>

(* ------------------------------ updateVote ----------------------------- *)

\* the early returns without the one for an unopposed yes
EarlyExit_OnlyNo(yays, nays, ourVote) == ~ourVote /\ yays = 0

\* the two early returns at the head of updateVote
EarlyExit(yays, nays, ourVote) ==
    \/ ourVote /\ nays = 0
    \/ ~ourVote /\ yays = 0

\* the weight without our own vote in the numerator
ProposingWeight_NoSelf(yays, nays, ourVote) ==
    (yays * 100) \div (nays + yays + 1)

\* the weight with our own 100 points given to a no vote instead of a yes
ProposingWeight_InvertedSelf(yays, nays, ourVote) ==
    (yays * 100 + (IF ourVote THEN 0 ELSE 100)) \div (nays + yays + 1)

\* the weight with our own 100 points counted whatever our vote is
ProposingWeight_AlwaysSelf(yays, nays, ourVote) ==
    (yays * 100 + 100) \div (nays + yays + 1)

\* the weight with our own 100 points added after the division
ProposingWeight_SelfAfterDivision(yays, nays, ourVote) ==
    (yays * 100) \div (nays + yays + 1) + (IF ourVote THEN 100 ELSE 0)

\* weight when proposing: the percentage of nodes voting yes, including us
\* (int / int of non-negative operands truncates, as \div does)
ProposingWeight(yays, nays, ourVote) ==
    (yays * 100 + (IF ourVote THEN 100 ELSE 0)) \div (nays + yays + 1)

\* the chain with non-strict comparisons of the weight
ProposingPosition_NonStrict(weight, percentTime) ==
    IF percentTime < AV_MID_CONSENSUS_TIME
        THEN weight >= AV_INIT_CONSENSUS_PCT
    ELSE IF percentTime < AV_LATE_CONSENSUS_TIME
        THEN weight >= AV_MID_CONSENSUS_PCT
    ELSE IF percentTime < AV_STUCK_CONSENSUS_TIME
        THEN weight >= AV_LATE_CONSENSUS_PCT
    ELSE weight >= AV_STUCK_CONSENSUS_PCT

\* the chain with boundaries that belong to the earlier bracket
ProposingPosition_InclusiveBounds(weight, percentTime) ==
    IF percentTime <= AV_MID_CONSENSUS_TIME
        THEN weight > AV_INIT_CONSENSUS_PCT
    ELSE IF percentTime <= AV_LATE_CONSENSUS_TIME
        THEN weight > AV_MID_CONSENSUS_PCT
    ELSE IF percentTime <= AV_STUCK_CONSENSUS_TIME
        THEN weight > AV_LATE_CONSENSUS_PCT
    ELSE weight > AV_STUCK_CONSENSUS_PCT

\* the chain with the mid and the late percentage exchanged
ProposingPosition_SwappedBrackets(weight, percentTime) ==
    IF percentTime < AV_MID_CONSENSUS_TIME
        THEN weight > AV_INIT_CONSENSUS_PCT
    ELSE IF percentTime < AV_LATE_CONSENSUS_TIME
        THEN weight > AV_LATE_CONSENSUS_PCT
    ELSE IF percentTime < AV_STUCK_CONSENSUS_TIME
        THEN weight > AV_MID_CONSENSUS_PCT
    ELSE weight > AV_STUCK_CONSENSUS_PCT

\* the if / else-if chain over percentTime when proposing
ProposingPosition(weight, percentTime) ==
    IF percentTime < AV_MID_CONSENSUS_TIME
        THEN weight > AV_INIT_CONSENSUS_PCT
    ELSE IF percentTime < AV_LATE_CONSENSUS_TIME
        THEN weight > AV_MID_CONSENSUS_PCT
    ELSE IF percentTime < AV_STUCK_CONSENSUS_TIME
        THEN weight > AV_LATE_CONSENSUS_PCT
    ELSE weight > AV_STUCK_CONSENSUS_PCT

\* the majority test letting a tie count as yes
ObservingPosition_NonStrict(yays, nays) == yays >= nays

\* newPosition when not proposing: just recognize consensus
ObservingPosition(yays, nays) == yays > nays

\* the locals weight and newPosition after the if (proposing) / else
Decide(yays, nays, ourVote, percentTime, proposing) ==
    IF proposing
        THEN [weight |-> ProposingWeight(yays, nays, ourVote),
              newPosition |->
                  ProposingPosition(ProposingWeight(yays, nays, ourVote),
                                    percentTime)]
        ELSE [weight |-> -1, newPosition |-> ObservingPosition(yays, nays)]

\* the tail returning the change without assigning mOurVote
Apply_NoAssign(newPosition, ourVote) ==
    [ret |-> newPosition # ourVote, mOurVote |-> ourVote]

\* the tail returning true on the no-change path as well
Apply_AlwaysChanged(newPosition, ourVote) ==
    [ret |-> TRUE, mOurVote |-> newPosition]

\* the tail of updateVote: compare newPosition with mOurVote, assign, return
Apply(newPosition, ourVote) ==
    [ret |-> newPosition # ourVote, mOurVote |-> newPosition]

updateVote(percentTime, proposing) ==
    /\ IF EarlyExit(mYays, mNays, mOurVote)
          THEN /\ mOurVote' = mOurVote
               /\ last' = Call("updateVote", 0, FALSE, percentTime, proposing,
                               FALSE, TRUE, 0, FALSE)
          ELSE LET d == Decide(mYays, mNays, mOurVote, percentTime, proposing)
                   a == Apply(d.newPosition, mOurVote)
               IN  /\ mOurVote' = a.mOurVote
                   /\ last' = Call("updateVote", 0, FALSE, percentTime,
                                   proposing, a.ret, FALSE, d.weight,
                                   d.newPosition)
    /\ UNCHANGED <<mTransactionID, transaction, mYays, mNays, mVotes, cfg>>

(* -------------------------------- getJson ------------------------------ *)

\* to_string(NodeID_t): the text form of a peer identifier
to_string(peer) == <<"NodeID", peer>>

\* votesj: one member per iteration of the loop over mVotes, named by the
\* text form of the peer
VotesJson(votes) ==
    [k \in {to_string(p) : p \in DOMAIN votes} |->
        votes[CHOOSE p \in DOMAIN votes : to_string(p) = k]]

\* getJson without the test of mVotes.empty()
JsonValue_AlwaysVotes(yays, nays, ourVote, votes) ==
    [yays |-> yays, nays |-> nays, our_vote |-> ourVote,
     votes |-> VotesJson(votes)]

\* the Json::Value getJson returns
JsonValue(yays, nays, ourVote, votes) ==
    IF DOMAIN votes # {}
        THEN [yays |-> yays, nays |-> nays, our_vote |-> ourVote,
              votes |-> VotesJson(votes)]
        ELSE [yays |-> yays, nays |-> nays, our_vote |-> ourVote]

getJson ==
    /\ last' = [Call("getJson", 0, FALSE, 0, FALSE, FALSE, FALSE, 0, FALSE)
                   EXCEPT !.json = JsonValue(mYays, mNays, mOurVote, mVotes)]
    /\ UNCHANGED <<mTransactionID, transaction, mYays, mNays, mOurVote,
                   mVotes, cfg>>

(* ---------------------------- specification ---------------------------- *)

Next ==
    \/ \E o \in BOOLEAN : setOurVote(o)
    \/ \E peer \in Peers, votesYes \in BOOLEAN : setVote(peer, votesYes)
    \/ \E peer \in Peers : unVote(peer)
    \/ \E percentTime \in PercentTimes, proposing \in BOOLEAN :
           updateVote(percentTime, proposing)
    \/ getJson

Spec == Init /\ [][Next]_vars

(* ======================= C1: counters match the map ==================== *)

\* C1: in every reachable state mYays is the number of peers whose stored
\* vote is true and mNays the number whose stored vote is false; hence
\* mYays + mNays = |mVotes| and both counters are >= 0.
C1_CountsMatchVotes ==
    /\ mYays = CountVotes(mVotes, TRUE)
    /\ mNays = CountVotes(mVotes, FALSE)
    /\ mYays + mNays = Cardinality(DOMAIN mVotes)
    /\ mYays >= 0
    /\ mNays >= 0

\* a peer was just removed while votes of both kinds remain
C1_Witness ==
    /\ last.op = "unVote"
    /\ last.peer \in DOMAIN last.pre.mVotes
    /\ mYays >= 1
    /\ mNays >= 1

(* ======================= C2: setVote is idempotent ===================== *)

\* C2: setVote(p, v) for a peer p already stored with vote v leaves mVotes,
\* mYays, mNays and mOurVote exactly as they were (so a second identical
\* setVote changes nothing the first one left).
C2_SetVoteIdempotent ==
    ( /\ last.op = "setVote"
      /\ last.peer \in DOMAIN last.pre.mVotes
      /\ last.pre.mVotes[last.peer] = last.vote )
    => /\ mVotes = last.pre.mVotes
       /\ mYays = last.pre.mYays
       /\ mNays = last.pre.mNays
       /\ mOurVote = last.pre.mOurVote

\* a peer re-registered the vote it already had, among other voters
C2_Witness ==
    /\ last.op = "setVote"
    /\ last.peer \in DOMAIN last.pre.mVotes
    /\ last.pre.mVotes[last.peer] = last.vote
    /\ Cardinality(DOMAIN mVotes) >= 2

(* ======================= C3: flip conservation ========================= *)

\* C3: setVote(p, ~v) for a peer p stored with vote v stores ~v for p, adds
\* exactly one to the counter of the new vote, takes exactly one from the
\* counter of the old vote, keeps mYays + mNays and |mVotes|, and leaves every
\* other peer's vote and mOurVote unchanged.
C3_FlipConservation ==
    ( /\ last.op = "setVote"
      /\ last.peer \in DOMAIN last.pre.mVotes
      /\ last.pre.mVotes[last.peer] # last.vote )
    => /\ DOMAIN mVotes = DOMAIN last.pre.mVotes
       /\ mVotes[last.peer] = last.vote
       /\ \A p \in DOMAIN mVotes \ {last.peer} : mVotes[p] = last.pre.mVotes[p]
       /\ IF last.vote
             THEN mYays = last.pre.mYays + 1 /\ mNays = last.pre.mNays - 1
             ELSE mNays = last.pre.mNays + 1 /\ mYays = last.pre.mYays - 1
       /\ mYays + mNays = last.pre.mYays + last.pre.mNays
       /\ mOurVote = last.pre.mOurVote

\* a peer flipped from yes to no while another peer keeps voting yes
C3_Witness ==
    /\ last.op = "setVote"
    /\ last.peer \in DOMAIN last.pre.mVotes
    /\ last.pre.mVotes[last.peer]
    /\ ~last.vote
    /\ mYays >= 1

(* ======================= C4: unVote of an absent peer ================== *)

\* C4: unVote(p) for a peer p that is not in mVotes changes nothing: mVotes,
\* mYays, mNays and mOurVote are as before, and no counter goes below zero.
C4_UnVoteAbsentNoOp ==
    ( /\ last.op = "unVote"
      /\ last.peer \notin DOMAIN last.pre.mVotes )
    => /\ mVotes = last.pre.mVotes
       /\ mYays = last.pre.mYays
       /\ mNays = last.pre.mNays
       /\ mOurVote = last.pre.mOurVote
       /\ mYays >= 0
       /\ mNays >= 0

\* unVote of a peer that is absent while other peers vote both ways
C4_Witness ==
    /\ last.op = "unVote"
    /\ last.peer \notin DOMAIN last.pre.mVotes
    /\ mYays >= 1
    /\ mNays >= 1

(* ======================= C5: early exit ================================ *)

\* C5: when (mOurVote and mNays = 0) or (not mOurVote and mYays = 0) holds
\* before updateVote, the call returns false and leaves mOurVote unchanged,
\* for every percentTime and both values of proposing.
C5_EarlyExit ==
    ( /\ last.op = "updateVote"
      /\ \/ last.pre.mOurVote /\ last.pre.mNays = 0
         \/ ~last.pre.mOurVote /\ last.pre.mYays = 0 )
    => /\ last.ret = FALSE
       /\ mOurVote = last.pre.mOurVote

\* updateVote ran with our yes vote unopposed and no peer agreeing with it
C5_Witness ==
    /\ last.op = "updateVote"
    /\ last.pre.mOurVote
    /\ last.pre.mNays = 0
    /\ last.pre.mYays = 0
    /\ ~last.proposing

(* ============ C6: the early exit against the full computation ========== *)

\* C6 (as claimed): whenever updateVote starts in a state satisfying the
\* early-exit guard, running the code after the guard (weight, threshold
\* comparison or majority comparison, assignment) on that state gives the
\* same mOurVote and the same return value as the guarded updateVote gave.
C6_GuardIsPureOptimization ==
    ( /\ last.op = "updateVote"
      /\ \/ last.pre.mOurVote /\ last.pre.mNays = 0
         \/ ~last.pre.mOurVote /\ last.pre.mYays = 0 )
    => LET d == Decide(last.pre.mYays, last.pre.mNays, last.pre.mOurVote,
                       last.percentTime, last.proposing)
           u == Apply(d.newPosition, last.pre.mOurVote)
       IN  /\ u.mOurVote = mOurVote
           /\ u.ret = last.ret

\* C6 (amended): the same equivalence holds in proposing mode when every
\* support threshold lies in 0..99, and in non-proposing mode unless our vote
\* is yes and no peer votes yes; in that excluded case the code after the
\* guard would flip our vote to no while the guarded updateVote returns false
\* and keeps yes.
C6_GuardEquivalenceAmended ==
    ( /\ last.op = "updateVote"
      /\ \/ last.pre.mOurVote /\ last.pre.mNays = 0
         \/ ~last.pre.mOurVote /\ last.pre.mYays = 0 )
    => LET d == Decide(last.pre.mYays, last.pre.mNays, last.pre.mOurVote,
                       last.percentTime, last.proposing)
           u == Apply(d.newPosition, last.pre.mOurVote)
           pcts == {cfg.initPct, cfg.midPct, cfg.latePct, cfg.stuckPct}
       IN  /\ ( /\ last.proposing
                /\ \A t \in pcts : t >= 0 /\ t <= 99 )
              => (u.mOurVote = mOurVote /\ u.ret = last.ret)
           /\ ( /\ ~last.proposing
                /\ ~(last.pre.mOurVote /\ last.pre.mYays = 0) )
              => (u.mOurVote = mOurVote /\ u.ret = last.ret)
           /\ ( /\ ~last.proposing
                /\ last.pre.mOurVote
                /\ last.pre.mYays = 0 )
              => (u.ret /\ ~u.mOurVote /\ ~last.ret /\ mOurVote)

\* a proposing updateVote left early with our yes vote unopposed and
\* supported by two peers
C6_Witness ==
    /\ last.op = "updateVote"
    /\ last.proposing
    /\ last.early
    /\ last.pre.mOurVote
    /\ last.pre.mNays = 0
    /\ last.pre.mYays = 2

(* ======================= C7: proposing decision ======================== *)

\* C7: when proposing and past the early-exit guard, weight is the truncated
\* quotient of mYays*100 + (100 if mOurVote else 0) by mNays + mYays + 1,
\* the threshold is the percentage of the bracket percentTime falls in, and
\* mOurVote becomes (weight > threshold), strictly: a weight equal to the
\* threshold gives no.  With mYays = 3, mNays = 1, mOurVote = no,
\* percentTime = 30 and an initial percentage of 50 the weight is 60 and our
\* vote flips to yes.
C7_ProposingDecision ==
    ( /\ last.op = "updateVote"
      /\ last.proposing
      /\ ~( \/ last.pre.mOurVote /\ last.pre.mNays = 0
            \/ ~last.pre.mOurVote /\ last.pre.mYays = 0 ) )
    => LET num == last.pre.mYays * 100
                      + (IF last.pre.mOurVote THEN 100 ELSE 0)
           den == last.pre.mNays + last.pre.mYays + 1
           thr == IF last.percentTime < 50 THEN cfg.initPct
                  ELSE IF last.percentTime < 85 THEN cfg.midPct
                  ELSE IF last.percentTime < 200 THEN cfg.latePct
                  ELSE cfg.stuckPct
       IN  /\ den > 0
           /\ last.weight * den <= num
           /\ num < (last.weight + 1) * den
           /\ last.newPosition = (last.weight > thr)
           /\ mOurVote = (last.weight > thr)
           /\ (last.weight = thr => ~mOurVote)
           /\ ( /\ last.pre.mYays = 3
                /\ last.pre.mNays = 1
                /\ ~last.pre.mOurVote
                /\ last.percentTime = 30
                /\ cfg.initPct = 50 )
              => (last.weight = 60 /\ mOurVote /\ last.ret)

\* the example of the claim: 3 yes, 1 no, our vote no, percentTime 30
C7_Witness ==
    /\ last.op = "updateVote"
    /\ last.proposing
    /\ last.pre.mYays = 3
    /\ last.pre.mNays = 1
    /\ ~last.pre.mOurVote
    /\ last.percentTime = 30
    /\ last.weight = 60
    /\ mOurVote

(* ======================= C8: bracket boundaries ======================== *)

\* C8: when proposing, the percentage compared with weight is the initial one
\* for percentTime < AV_MID_CONSENSUS_TIME, the mid one from
\* AV_MID_CONSENSUS_TIME up to (not including) AV_LATE_CONSENSUS_TIME, the
\* late one from AV_LATE_CONSENSUS_TIME up to (not including)
\* AV_STUCK_CONSENSUS_TIME and the stuck one from AV_STUCK_CONSENSUS_TIME on;
\* a percentTime equal to a boundary uses the later bracket.
C8_BracketBoundaries ==
    ( /\ last.op = "updateVote"
      /\ last.proposing
      /\ ~last.early )
    => LET t == last.percentTime
           w == last.weight
       IN  /\ (t < AV_MID_CONSENSUS_TIME)
              => (last.newPosition = (w > cfg.initPct))
           /\ (AV_MID_CONSENSUS_TIME <= t /\ t < AV_LATE_CONSENSUS_TIME)
              => (last.newPosition = (w > cfg.midPct))
           /\ (AV_LATE_CONSENSUS_TIME <= t /\ t < AV_STUCK_CONSENSUS_TIME)
              => (last.newPosition = (w > cfg.latePct))
           /\ (t >= AV_STUCK_CONSENSUS_TIME)
              => (last.newPosition = (w > cfg.stuckPct))
           /\ (t = AV_MID_CONSENSUS_TIME)
              => (last.newPosition = (w > cfg.midPct))
           /\ (t = AV_LATE_CONSENSUS_TIME)
              => (last.newPosition = (w > cfg.latePct))
           /\ (t = AV_STUCK_CONSENSUS_TIME)
              => (last.newPosition = (w > cfg.stuckPct))

\* percentTime is exactly the mid boundary and the weight passes the initial
\* percentage but not the mid one: the later bracket decides no
C8_Witness ==
    /\ last.op = "updateVote"
    /\ last.proposing
    /\ ~last.early
    /\ last.percentTime = AV_MID_CONSENSUS_TIME
    /\ last.weight > cfg.initPct
    /\ last.weight <= cfg.midPct
    /\ ~last.newPosition

(* ======================= C9: non-proposing decision ==================== *)

\* C9: when not proposing and past the early-exit guard, mOurVote becomes
\* (mYays > mNays), a strict majority of the peer votes; the result is a
\* function of the two counters only (not of percentTime, of a threshold, of
\* the previous mOurVote or of the weight, which is the sentinel -1).
C9_ObservingDecision ==
    ( /\ last.op = "updateVote"
      /\ ~last.proposing
      /\ ~( \/ last.pre.mOurVote /\ last.pre.mNays = 0
            \/ ~last.pre.mOurVote /\ last.pre.mYays = 0 ) )
    => /\ mOurVote = (last.pre.mYays > last.pre.mNays)
       /\ last.newPosition = (last.pre.mYays > last.pre.mNays)
       /\ last.ret = (last.pre.mOurVote # (last.pre.mYays > last.pre.mNays))
       /\ last.weight = -1

\* a non-proposing updateVote decided yes on two yes votes against one no
\* although our vote was no before
C9_Witness ==
    /\ last.op = "updateVote"
    /\ ~last.proposing
    /\ ~last.early
    /\ last.pre.mYays = 2
    /\ last.pre.mNays = 1
    /\ ~last.pre.mOurVote
    /\ mOurVote
    /\ last.ret

(* ======================= C10: tie when not proposing =================== *)

\* C10 (as claimed): after a non-proposing updateVote that started with
\* mYays = mNays, mOurVote is no, and the call returned true exactly when
\* mOurVote was yes before.
C10_TieGivesNo ==
    ( /\ last.op = "updateVote"
      /\ ~last.proposing
      /\ last.pre.mYays = last.pre.mNays )
    => /\ ~mOurVote
       /\ last.ret = last.pre.mOurVote

\* C10 (amended): the same holds when mYays = mNays >= 1; in the tie
\* mYays = mNays = 0 the early exit returns false and mOurVote stays as it
\* was (yes stays yes).
C10_TieGivesNoAmended ==
    ( /\ last.op = "updateVote"
      /\ ~last.proposing
      /\ last.pre.mYays = last.pre.mNays )
    => /\ (last.pre.mYays >= 1)
          => (~mOurVote /\ last.ret = last.pre.mOurVote)
       /\ (last.pre.mYays = 0)
          => (~last.ret /\ mOurVote = last.pre.mOurVote)

\* a two-against-two tie met our yes vote: the call flipped it to no
C10_Witness ==
    /\ last.op = "updateVote"
    /\ ~last.proposing
    /\ last.pre.mYays = 2
    /\ last.pre.mNays = 2
    /\ last.pre.mOurVote
    /\ ~mOurVote
    /\ last.ret

(* ======================= C11: threshold monotonicity =================== *)

\* C11: when proposing, the support a yes needs never decreases with
\* percentTime: for the percentTime t1 of a call and every t2 >= t1, every
\* weight that passes the comparison at t2 passes it at t1 (the percentage
\* used at t1 is <= the one used at t2); so with mYays, mNays and mOurVote
\* fixed, a newPosition of no at t1 is a newPosition of no at every t2 >= t1.
C11_ThresholdMonotone ==
    ( /\ last.op = "updateVote"
      /\ last.proposing
      /\ ~last.early )
    => \A t2 \in PercentTimes :
          (t2 >= last.percentTime)
          => /\ \A w \in 0 .. 100 :
                   ProposingPosition(w, t2)
                   => ProposingPosition(w, last.percentTime)
             /\ ~last.newPosition
                => ~Decide(last.pre.mYays, last.pre.mNays,
                           last.pre.mOurVote, t2, TRUE).newPosition

\* a proposing call in the mid bracket decided yes on a weight that the late
\* bracket of the same configuration would refuse
C11_Witness ==
    /\ last.op = "updateVote"
    /\ last.proposing
    /\ ~last.early
    /\ last.percentTime = AV_MID_CONSENSUS_TIME
    /\ last.newPosition
    /\ last.weight <= cfg.latePct
    /\ cfg.midPct < cfg.latePct

(* ======================= C12: no oscillation =========================== *)

\* C12: in a run of successive updateVote calls with the same proposing and
\* non-decreasing percentTime, and no other call in between, once a call
\* changed mOurVote from yes to no no later call of the run changes it back
\* to yes, and the run changes mOurVote at most twice.
C12_NoOscillation ==
    last.run.active
    => /\ ~last.run.backToYes
       /\ last.run.flips <= 2

\* a run whose first change was from no to yes and whose second, in a later
\* bracket, was from yes to no, followed by one more call
C12_Witness ==
    /\ last.op = "updateVote"
    /\ last.run.active
    /\ last.run.flips = 2
    /\ last.run.wentNo
    /\ ~last.ret
    /\ ~mOurVote

(* ======================= C13: direction of a change ==================== *)

\* C13 (as claimed): whenever a proposing updateVote changes mOurVote, the
\* new vote is the one of the strict majority of the peers: a change to yes
\* only with mYays > mNays, a change to no only with mNays > mYays.
C13_FlipsTowardMajority ==
    ( /\ last.op = "updateVote"
      /\ last.proposing
      /\ last.ret )
    => IF mOurVote
          THEN last.pre.mYays > last.pre.mNays
          ELSE last.pre.mNays > last.pre.mYays

\* C13 (amended): a proposing updateVote changes mOurVote to yes only with
\* mYays > mNays; it changes mOurVote to no only when mNays >= 1 and the share
\* of yes votes including ours, (mYays + 1) * 100 div (mYays + mNays + 1), is
\* at most the percentage of the bracket, which also happens while
\* mYays >= mNays.
C13_FlipsAmended ==
    ( /\ last.op = "updateVote"
      /\ last.proposing
      /\ last.ret )
    => LET thr == IF last.percentTime < 50 THEN cfg.initPct
                  ELSE IF last.percentTime < 85 THEN cfg.midPct
                  ELSE IF last.percentTime < 200 THEN cfg.latePct
                  ELSE cfg.stuckPct
       IN  IF mOurVote
              THEN last.pre.mYays > last.pre.mNays
              ELSE /\ last.pre.mNays >= 1
                   /\ ((last.pre.mYays + 1) * 100)
                         \div (last.pre.mYays + last.pre.mNays + 1) <= thr

\* a proposing call changed our vote from no to yes on three yes votes
\* against one no
C13_Witness ==
    /\ last.op = "updateVote"
    /\ last.proposing
    /\ last.ret
    /\ mOurVote
    /\ last.pre.mYays = 3
    /\ last.pre.mNays = 1

(* ======================= C14: result and frame of updateVote =========== *)

\* C14: updateVote returns true if and only if mOurVote after the call
\* differs from mOurVote before it, and it never changes mVotes, mYays,
\* mNays, mTransactionID or transaction.
C14_UpdateVoteResultAndFrame ==
    (last.op = "updateVote")
    => /\ last.ret = (mOurVote # last.pre.mOurVote)
       /\ mVotes = last.pre.mVotes
       /\ mYays = last.pre.mYays
       /\ mNays = last.pre.mNays
       /\ mTransactionID = last.pre.mTransactionID
       /\ transaction = last.pre.transaction

\* a call past the early exit that kept our yes vote against an opposing peer
C14_Witness ==
    /\ last.op = "updateVote"
    /\ ~last.early
    /\ ~last.ret
    /\ mOurVote
    /\ mNays >= 1
    /\ mYays >= 2

(* ======================= C15: getJson ================================== *)

\* C15: getJson returns yays = mYays, nays = mNays, our_vote = mOurVote; the
\* member votes is absent if and only if mVotes is empty, and when present it
\* has exactly one member per peer of mVotes, carrying that peer's vote;
\* getJson changes no field of the object.
C15_SnapshotContract ==
    (last.op = "getJson")
    => /\ last.json.yays = mYays
       /\ last.json.nays = mNays
       /\ last.json.our_vote = mOurVote
       /\ ("votes" \notin DOMAIN last.json) <=> (DOMAIN mVotes = {})
       /\ ("votes" \in DOMAIN last.json)
          => /\ Cardinality(DOMAIN last.json.votes)
                   = Cardinality(DOMAIN mVotes)
             /\ \A p \in DOMAIN mVotes :
                   /\ to_string(p) \in DOMAIN last.json.votes
                   /\ last.json.votes[to_string(p)] = mVotes[p]
       /\ mVotes = last.pre.mVotes
       /\ mYays = last.pre.mYays
       /\ mNays = last.pre.mNays
       /\ mOurVote = last.pre.mOurVote
       /\ mTransactionID = last.pre.mTransactionID
       /\ transaction = last.pre.transaction

\* a snapshot of three peers voting both ways
C15_Witness ==
    /\ last.op = "getJson"
    /\ "votes" \in DOMAIN last.json
    /\ Cardinality(DOMAIN last.json.votes) = 3
    /\ mYays = 2
    /\ mNays = 1

(* ======================= C16: setVote ... unVote round trip ============ *)

\* C16: for a peer p absent from mVotes, setVote(p, v), any number of further
\* setVote(p, _) and then unVote(p) leave mVotes, mYays and mNays exactly as
\* they were before the first call; starting from the empty tally the result
\* is the empty map with both counters 0, whose snapshot has no votes member.
C16_RoundTrip ==
    last.trip.done
    => /\ last.op = "unVote"
       /\ mVotes = last.trip.mVotes
       /\ mYays = last.trip.mYays
       /\ mNays = last.trip.mNays
       /\ (DOMAIN last.trip.mVotes = {})
          => /\ mYays = 0
             /\ mNays = 0
             /\ DOMAIN mVotes = {}
             /\ "votes" \notin DOMAIN JsonValue(mYays, mNays, mOurVote, mVotes)

\* a peer joined a tally of other voters, changed its vote and was removed
C16_Witness ==
    /\ last.trip.done
    /\ last.trip.flipped
    /\ last.op = "unVote"
    /\ last.trip.mYays >= 1
    /\ last.trip.mNays >= 1

(* ======================= C17: setOurVote =============================== *)

\* C17: after setOurVote(b) mOurVote is b, whatever the tally is, and mVotes,
\* mYays, mNays, mTransactionID and transaction are unchanged.
C17_SetOurVoteOverrides ==
    (last.op = "setOurVote")
    => /\ mOurVote = last.vote
       /\ mVotes = last.pre.mVotes
       /\ mYays = last.pre.mYays
       /\ mNays = last.pre.mNays
       /\ mTransactionID = last.pre.mTransactionID
       /\ transaction = last.pre.transaction

\* our vote was set to yes against a majority of no votes
C17_Witness ==
    /\ last.op = "setOurVote"
    /\ last.vote
    /\ ~last.pre.mOurVote
    /\ mOurVote
    /\ mNays > mYays
    /\ mYays >= 1

(* ======================= C18: repeated updateVote ====================== *)

\* C18: an updateVote that directly follows an updateVote with the same
\* percentTime and proposing returns false and leaves mOurVote as the first
\* call left it.
C18_RepeatIsStable ==
    ( /\ last.op = "updateVote"
      /\ last.run.same )
    => /\ ~last.ret
       /\ mOurVote = last.pre.mOurVote

\* the repeated call follows one that changed our vote, with peers voting
\* both ways, when proposing
C18_Witness ==
    /\ last.op = "updateVote"
    /\ last.run.same
    /\ last.run.flips = 1
    /\ last.proposing
    /\ ~last.early
    /\ ~last.ret

(* ======================= C19: range of the weight ====================== *)

\* C19: when proposing, the weight lies in 0 .. 100 for every reachable tally
\* and either mOurVote: it is never the sentinel -1 of the non-proposing
\* branch, the divisor mNays + mYays + 1 is never 0, and no percentage >= 100
\* is exceeded by it (newPosition would be no).
C19_WeightRange ==
    /\ mNays + mYays + 1 # 0
    /\ \A o \in BOOLEAN :
          /\ ProposingWeight(mYays, mNays, o) >= 0
          /\ ProposingWeight(mYays, mNays, o) <= 100
    /\ ( /\ last.op = "updateVote"
         /\ last.proposing
         /\ ~last.early )
       => /\ last.weight >= 0
          /\ last.weight <= 100
          /\ last.weight # -1
          /\ last.pre.mNays + last.pre.mYays + 1 # 0
          /\ \A thr \in {100, 101, 200} : ~(last.weight > thr)

\* a proposing call computed the largest weight a call past the early exit
\* can have with four peers: our yes and three yes votes against one no
C19_Witness ==
    /\ last.op = "updateVote"
    /\ last.proposing
    /\ ~last.early
    /\ last.pre.mOurVote
    /\ last.pre.mYays = 3
    /\ last.pre.mNays = 1
    /\ last.weight = 80

(* ======================= C20: history independence ===================== *)

\* C20: the result of updateVote (return value and mOurVote afterwards) is a
\* function of the numbers of yes and no entries of mVotes, of mOurVote, of
\* percentTime and of proposing alone, whatever sequence of calls produced
\* them; so two objects with the same mVotes and mOurVote give the same
\* result for the same arguments.
C20_HistoryIndependent ==
    (last.op = "updateVote")
    => LET y == CountVotes(last.pre.mVotes, TRUE)
           n == CountVotes(last.pre.mVotes, FALSE)
           o == last.pre.mOurVote
           newPosition ==
               IF last.proposing
                   THEN LET w == (y * 100 + (IF o THEN 100 ELSE 0))
                                     \div (n + y + 1)
                        IN  IF last.percentTime < 50 THEN w > cfg.initPct
                            ELSE IF last.percentTime < 85 THEN w > cfg.midPct
                            ELSE IF last.percentTime < 200 THEN w > cfg.latePct
                            ELSE w > cfg.stuckPct
                   ELSE y > n
           out == IF (o /\ n = 0) \/ (~o /\ y = 0) THEN o ELSE newPosition
       IN  /\ mOurVote = out
           /\ last.ret = (out # o)

\* a call changed our vote on a tally of three peers out of four, so that
\* the tally was reached by votes of different peers or after a removal
C20_Witness ==
    /\ last.op = "updateVote"
    /\ last.ret
    /\ Cardinality(DOMAIN last.pre.mVotes) = 3
    /\ last.pre.mYays >= 1
    /\ last.pre.mNays >= 1

====
